---------------------------- MODULE Spec2Model ----------------------------
(***************************************************************************)
(* A model of the FIRE simulator's deterministic engine:                   *)
(*   backend/core/simulation.py      run_simulation,                       *)
(*                                   calculate_monthly_payment             *)
(*   core_private/fire_calculations.py                                     *)
(*                                   FireCalculations.get_allocation_ratios*)
(*                                                                         *)
(* Python floats are modelled as exact rationals <<n, d>> in lowest terms  *)
(* with d > 0, so that "x / total", "principal / (years * 12)" and the     *)
(* monthly compounding "x * (1 + rate / 12)" are computed, not abstracted. *)
(* Rounding of IEEE doubles is outside the model.                          *)
(*                                                                         *)
(* run_simulation is one call: its position in the two nested loops is pc, *)
(* year_i and m, and every other variable is a local of the function.      *)
(***************************************************************************)
EXTENDS Integers, Sequences, FiniteSets, TLC

(***************************************************************************)
(* Exact rational arithmetic (the model of float +, -, *, /, comparisons). *)
(***************************************************************************)
Abs(x) == IF x < 0 THEN -x ELSE x

RECURSIVE GCD(_, _)
GCD(a, b) == IF b = 0 THEN a ELSE GCD(b, a % b)

Norm(n, d) ==
    LET g == GCD(Abs(n), Abs(d))
        s == IF d < 0 THEN -1 ELSE 1
    IN  <<(s * n) \div g, (s * d) \div g>>

R(n) == <<n, 1>>

Zero == R(0)

One == R(1)

Plus(a, b) ==
    LET g == GCD(a[2], b[2])
    IN  Norm(a[1] * (b[2] \div g) + b[1] * (a[2] \div g), a[2] * (b[2] \div g))

Neg(a) == <<-a[1], a[2]>>

Minus(a, b) == Plus(a, Neg(b))

Times(a, b) ==
    LET g1 == GCD(Abs(a[1]), b[2])
        g2 == GCD(Abs(b[1]), a[2])
    IN  Norm((a[1] \div g1) * (b[1] \div g2), (a[2] \div g2) * (b[2] \div g1))

\* a / b for b # 0
Over(a, b) == Times(a, IF b[1] < 0 THEN <<-b[2], -b[1]>> ELSE <<b[2], b[1]>>)

Le(a, b) ==
    LET g == GCD(a[2], b[2])
    IN  a[1] * (b[2] \div g) <= b[1] * (a[2] \div g)

Lt(a, b) == ~Le(b, a)

\* max(0, x)
Max0(a) == IF a[1] < 0 THEN Zero ELSE a


\* a fault of calculate_monthly_payment: one year of simple interest is
\* spread over the payments
calculate_monthly_payment_WithInterest(principal, annual_rate, years) ==
    IF years <= 0 \/ Le(principal, Zero)
    THEN Zero
    ELSE Over(Times(principal, Plus(One, annual_rate)), R(years * 12))

(***************************************************************************)
(* calculate_monthly_payment (simulation.py 7-12): principal-average       *)
(* repayment; annual_rate is accepted and not used.                        *)
(***************************************************************************)
calculate_monthly_payment(principal, annual_rate, years) ==
    IF years <= 0 \/ Le(principal, Zero)
    THEN Zero
    ELSE Over(principal, R(years * 12))

\* a fault of get_allocation_ratios: the life-stage boundaries are exclusive
get_allocation_ratios_ExclusiveBounds(age, investment_config) ==
    LET raw == IF age < 40
               THEN <<investment_config.young_growth_ratio,
                      investment_config.young_conservative_ratio,
                      investment_config.young_cash_reserve_ratio>>
               ELSE IF age < 55
               THEN <<investment_config.middle_growth_ratio,
                      investment_config.middle_conservative_ratio,
                      investment_config.middle_cash_reserve_ratio>>
               ELSE <<investment_config.old_growth_ratio,
                      investment_config.old_conservative_ratio,
                      investment_config.old_cash_reserve_ratio>>
        total == Plus(Plus(raw[1], raw[2]), raw[3])
    IN  IF Le(total, Zero)
        THEN <<Zero, Zero, One>>
        ELSE <<Over(raw[1], total), Over(raw[2], total), Over(raw[3], total)>>

(***************************************************************************)
(* FireCalculations.get_allocation_ratios (fire_calculations.py 130-168).  *)
(* investment_config holds the nine raw weights as rationals.              *)
(***************************************************************************)
get_allocation_ratios(age, investment_config) ==
    LET raw == IF age <= 40
               THEN <<investment_config.young_growth_ratio,
                      investment_config.young_conservative_ratio,
                      investment_config.young_cash_reserve_ratio>>
               ELSE IF age <= 55
               THEN <<investment_config.middle_growth_ratio,
                      investment_config.middle_conservative_ratio,
                      investment_config.middle_cash_reserve_ratio>>
               ELSE <<investment_config.old_growth_ratio,
                      investment_config.old_conservative_ratio,
                      investment_config.old_cash_reserve_ratio>>
        total == Plus(Plus(raw[1], raw[2]), raw[3])
    IN  IF Le(total, Zero)
        THEN <<Zero, Zero, One>>
        ELSE <<Over(raw[1], total), Over(raw[2], total), Over(raw[3], total)>>

(***************************************************************************)
(* run_simulation: reading the payload (simulation.py 15-37).              *)
(* "x or d" takes d when x is absent, None or 0: a stored 0 stands for all *)
(* three.                                                                  *)
(***************************************************************************)
DefaultAge == 25

DefaultRetirementAge == 65

DefaultLifeExpectancy == 85

DefaultInflation == <<3, 100>>

DefaultConsRet == <<3, 100>>

DefaultGrowthRet == <<7, 100>>

OrInt(x, d) == IF x = 0 THEN d ELSE x

OrFloat(x, d) == IF x = Zero THEN d ELSE x

Max(a, b) == IF a >= b THEN a ELSE b

Age(payload) == OrInt(payload.player_status.age, DefaultAge)

RetirementAge(payload) ==
    OrInt(payload.investment_config.retirement_age, DefaultRetirementAge)

LifeExpectancy(payload) ==
    OrInt(payload.investment_config.life_expectancy, DefaultLifeExpectancy)

\* a fault of Years: at least one accumulation year is simulated
Years_AtLeastOne(payload) == Max(1, RetirementAge(payload) - Age(payload))

Years(payload) == Max(0, RetirementAge(payload) - Age(payload))

YearsInRetirement(payload) ==
    Max(0, LifeExpectancy(payload) - RetirementAge(payload))

Inflation(payload) ==
    OrFloat(payload.investment_config.inflation_rate, DefaultInflation)

ConsRet(payload) ==
    OrFloat(payload.investment_config.conservative_return_rate, DefaultConsRet)

GrowthRet(payload) ==
    OrFloat(payload.investment_config.growth_return_rate, DefaultGrowthRet)

\* d.get(k, default) of a key that does not hold None. A dict is a record
\* of the keys it holds a value for; the keys it holds None for are listed
\* under "nulls"; an empty dict is << >>.
Get(d, k, default) == IF k \in DOMAIN d THEN d[k] ELSE default

\* the keys of d that hold None
Nulls(d) == Get(d, "nulls", {})

DefaultCashRet == <<1, 50>>

\* simulation.py 103, 159: invest.get("cash_return", 0.02), no "or"
CashRet(payload) ==
    Get(payload.investment_config, "cash_return", DefaultCashRet)

\* simulation.py 147: salary.get("young_growth_rate", 0.0)
SalaryGrowth(payload) == Get(payload.salary_config, "young_growth_rate", Zero)

\* float(None) at simulation.py 103 or 159
CashReturnRaises(payload) == "cash_return" \in Nulls(payload.investment_config)

\* float(None) at simulation.py 147
SalaryGrowthRaises(payload) ==
    "young_growth_rate" \in Nulls(payload.salary_config)

(***************************************************************************)
(* House-purchase events of one age (simulation.py 57-70).                 *)
(***************************************************************************)
BuyHouse == "buy_house"

DefaultDownPayment == 20

DefaultLoanRate == <<3, 100>>

DefaultLoanYears == 30

\* event.get("house_data", {})
HouseData(event) == Get(event, "house_data", << >>)

\* simulation.py 63: a house_price absent, None or 0 is 0
HousePrice(event) == Get(HouseData(event), "house_price", 0)

\* simulation.py 64, in hundredths
DownPaymentRatio(event) ==
    Get(HouseData(event), "down_payment_ratio", DefaultDownPayment)

\* simulation.py 65
LoanRate(event) == Get(HouseData(event), "loan_rate", DefaultLoanRate)

\* simulation.py 66
LoanYears(event) == Get(HouseData(event), "loan_years", DefaultLoanYears)

\* simulation.py 63-66: None.get(...) when house_data is None, float(None) or
\* int(None) when one of the three fields read without "or" is None
EventRaises(event) ==
    /\ event.type = BuyHouse
    /\ \/ "house_data" \in Nulls(event)
       \/ Nulls(HouseData(event))
              \cap {"down_payment_ratio", "loan_rate", "loan_years"} # {}

EventsRaise(life_planning, age) ==
    /\ age \in DOMAIN life_planning
    /\ \E j \in 1 .. Len(life_planning[age]) :
          EventRaises(life_planning[age][j])

LoanAmount(event) ==
    Times(R(HousePrice(event)),
          Minus(One, Over(R(DownPaymentRatio(event)), R(100))))

\* a fault of ProcessEvent: an event that is no house purchase is charged
\* to the debt
ProcessEvent_ChargesOtherEvents(event, age, st) ==
    IF event.type = BuyHouse
    THEN LET loan_amount == LoanAmount(event)
             pay == calculate_monthly_payment(loan_amount,
                        LoanRate(event), LoanYears(event))
         IN  [current_debt |-> loan_amount,
              monthly_house_payment |-> pay,
              event_log |-> Append(st.event_log,
                  [kind |-> BuyHouse, age |-> age,
                   house_price |-> HousePrice(event),
                   loan_amount |-> loan_amount, payment |-> pay])]
    ELSE [st EXCEPT !.current_debt = Plus(@, One)]

\* a fault of ProcessEvent: the new loan is added to the debt outstanding
ProcessEvent_AddsDebt(event, age, st) ==
    IF event.type = BuyHouse
    THEN LET loan_amount == LoanAmount(event)
             pay == calculate_monthly_payment(loan_amount,
                        LoanRate(event), LoanYears(event))
         IN  [current_debt |-> Plus(st.current_debt, loan_amount),
              monthly_house_payment |-> pay,
              event_log |-> Append(st.event_log,
                  [kind |-> BuyHouse, age |-> age,
                   house_price |-> HousePrice(event),
                   loan_amount |-> loan_amount, payment |-> pay])]
    ELSE st

\* one iteration of "for event in events_at_age"; st is
\* [current_debt, monthly_house_payment, event_log]
ProcessEvent(event, age, st) ==
    IF event.type = BuyHouse
    THEN LET loan_amount == LoanAmount(event)
             pay == calculate_monthly_payment(loan_amount,
                        LoanRate(event), LoanYears(event))
         IN  [current_debt |-> loan_amount,
              monthly_house_payment |-> pay,
              event_log |-> Append(st.event_log,
                  [kind |-> BuyHouse, age |-> age,
                   house_price |-> HousePrice(event),
                   loan_amount |-> loan_amount, payment |-> pay])]
    ELSE st

RECURSIVE ProcessEvents(_, _, _, _)
ProcessEvents(events, i, age, st) ==
    IF i > Len(events)
    THEN st
    ELSE ProcessEvents(events, i + 1, age, ProcessEvent(events[i], age, st))

EventsAtAge(life_planning, age, st) ==
    IF age \in DOMAIN life_planning
    THEN ProcessEvents(life_planning[age], 1, age, st)
    ELSE st

(***************************************************************************)
(* Allocation ratios of one accumulation year (simulation.py 72-92).       *)
(***************************************************************************)
BucketRatios(age, invest) ==
    IF age <= 40
    THEN <<invest.young_growth_ratio, invest.young_conservative_ratio,
           invest.young_cash_reserve_ratio>>
    ELSE IF age <= 55
    THEN <<invest.middle_growth_ratio, invest.middle_conservative_ratio,
           invest.middle_cash_reserve_ratio>>
    ELSE <<invest.old_growth_ratio, invest.old_conservative_ratio,
           invest.old_cash_reserve_ratio>>

\* a fault of NormalizeRatios: the weights are applied as they are given
NormalizeRatios_Raw(raw) == raw

\* simulation.py 86-92
NormalizeRatios(raw) ==
    LET total_ratio == Plus(Plus(raw[1], raw[2]), raw[3])
    IN  IF Le(total_ratio, Zero)
        THEN <<Zero, Zero, One>>
        ELSE <<Over(raw[1], total_ratio), Over(raw[2], total_ratio),
               Over(raw[3], total_ratio)>>

(***************************************************************************)
(* One month (simulation.py 95-112 and 152-187).                           *)
(***************************************************************************)
MonthsPerYear == 12

\* x * (1 + annual / 12)
Compound(x, annual) == Times(x, Plus(One, Over(annual, R(12))))

Cashflow(income, house_payment, expense) ==
    Minus(Minus(income, house_payment), expense)

\* simulation.py 110-112
AccumDebt(debt, house_payment) ==
    IF Lt(Zero, debt) /\ Lt(Zero, house_payment)
    THEN Max0(Minus(debt, house_payment))
    ELSE debt

\* a fault of RetireDebt: the debt is no longer repaid after retirement
RetireDebt_Frozen(debt, house_payment) == debt

\* simulation.py 168-169, 174-175, 184-185
RetireDebt(debt, house_payment) == Max0(Minus(debt, house_payment))

\* a fault of Waterfall: the shortfall of cash is not passed on to the bonds
Waterfall_CashOnly(cash, bond, stock, expense) ==
    IF Le(expense, cash)
    THEN [cash |-> Minus(cash, expense), bond |-> bond, stock |-> stock,
          branch |-> "cash"]
    ELSE [cash |-> Zero, bond |-> bond, stock |-> stock, branch |-> "bond"]

\* simulation.py 166-185: pay from cash first, then bond, then stock; the
\* arguments are the balances after the month's compounding
Waterfall(cash, bond, stock, expense) ==
    IF Le(expense, cash)
    THEN [cash |-> Minus(cash, expense), bond |-> bond, stock |-> stock,
          branch |-> "cash"]
    ELSE IF Le(expense, Plus(cash, bond))
    THEN [cash |-> Zero, bond |-> Minus(bond, Minus(expense, cash)),
          stock |-> stock, branch |-> "bond"]
    ELSE [cash |-> Zero, bond |-> Zero,
          stock |-> Max0(Minus(stock, Minus(expense, Plus(cash, bond)))),
          branch |-> "stock"]

\* a fault of MonthNumber: months counted from 0
MonthNumber_FromZero(i) == i

\* a fault of YearlyWithdrawn: one month of outflow is reported for the year
YearlyWithdrawn_OneMonth(monthly_total_expense) == monthly_total_expense

\* simulation.py 214: "yearly_withdrawn": monthly_total_expense * 12
YearlyWithdrawn(monthly_total_expense) == Times(monthly_total_expense, R(12))

\* a fault of PaidOff: the payment goes on after the debt is repaid
PaidOff_Never(debt, house_payment) == house_payment

\* simulation.py 223-224: no house payment once the debt is repaid
PaidOff(debt, house_payment) ==
    IF Le(debt, Zero) THEN Zero ELSE house_payment

\* simulation.py 117, 191: "month": m + 1
MonthNumber(i) == i + 1

\* simulation.py 145, 219: cur_age += 1
NextAge(age) == age + 1

\* a fault of GrowExpense: the expense stays what it was
GrowExpense_Flat(expense, inflation) == expense

\* simulation.py 146, 220: monthly_expense *= (1 + inflation)
GrowExpense(expense, inflation) == Times(expense, Plus(One, inflation))

\* simulation.py 147: monthly_income *= (1 + young_growth_rate)
GrowIncome(income, growth) == Times(income, Plus(One, growth))

(***************************************************************************)
(* State of one run_simulation call.                                       *)
(***************************************************************************)
VARIABLES
    payload,                \* the argument of the call
    pc,                     \* position in run_simulation
    year_i,                 \* iterations done by the current "for _ in range"
    m,                      \* months done in the current year
    cur_age,
    monthly_income,
    monthly_expense,
    current_debt,
    monthly_house_payment,
    ratios,                 \* <<gr, cr, hr>> of the current accumulation year
    stock_amt,
    bond_amt,
    cash_amt,
    savings,
    financial_results,
    yearly_map,
    event_log,
    branches,               \* history: waterfall branches taken so far
    stepped,                \* history: the ages each phase has stepped
    call                    \* a call of one of the pure functions

vars == <<payload, pc, year_i, m, cur_age, monthly_income, monthly_expense,
          current_debt, monthly_house_payment, ratios, stock_amt, bond_amt,
          cash_amt, savings, financial_results, yearly_map, event_log,
          branches, stepped, call>>

NoCall == [fn |-> "none"]

\* a fault of FreshList: the list of an earlier call is kept (a list shared
\* between calls)
FreshList_Kept(previous) == previous

\* simulation.py 29: financial_results is bound to a new list at every call,
\* whatever list an earlier call has left
FreshList(previous) == << >>

\* simulation.py 39-42: the first entry of event_log
StartOfLog(p) ==
    << [kind |-> "start", age |-> Age(p),
        retirement_age |-> RetirementAge(p),
        life_expectancy |-> LifeExpectancy(p),
        inflation |-> Inflation(p)] >>

\* simulation.py 15-51: the locals before the first loop
InitRun(p) ==
    /\ payload = p
    /\ pc = "accum_year"
    /\ year_i = 0
    /\ m = 0
    /\ cur_age = Age(p)
    /\ monthly_income = R(p.player_status.monthly_income)
    /\ monthly_expense = R(p.player_status.monthly_expense)
    /\ current_debt = R(p.player_status.debt)
    /\ monthly_house_payment = Zero
    /\ ratios = <<Zero, Zero, Zero>>
    /\ stock_amt = Zero
    /\ bond_amt = Zero
    /\ cash_amt = Zero
    /\ savings = R(p.player_status.savings)
    /\ financial_results = FreshList(<< >>)
    /\ yearly_map = << >>
    /\ event_log = StartOfLog(p)
    /\ branches = {}
    /\ stepped = [accum |-> {}, retire |-> {}]
    /\ call = NoCall

\* simulation.py 55-92: the head of one accumulation year
StartAccumYear ==
    /\ pc = "accum_year"
    /\ year_i < Years(payload)
    /\ ~EventsRaise(payload.life_planning, cur_age)
    /\ LET st == EventsAtAge(payload.life_planning, cur_age,
                     [current_debt |-> current_debt,
                      monthly_house_payment |-> monthly_house_payment,
                      event_log |-> event_log])
       IN  /\ current_debt' = st.current_debt
           /\ monthly_house_payment' = st.monthly_house_payment
           /\ event_log' = st.event_log
    /\ ratios' = NormalizeRatios(BucketRatios(cur_age, payload.investment_config))
    /\ m' = 0
    /\ pc' = "accum_month"
    /\ UNCHANGED <<payload, year_i, cur_age, monthly_income, monthly_expense,
                   stock_amt, bond_amt, cash_amt, savings, financial_results,
                   yearly_map, branches, stepped, call>>

\* simulation.py 95-128: one accumulation month
AccumMonth ==
    /\ pc = "accum_month"
    /\ m < MonthsPerYear
    /\ ~CashReturnRaises(payload)
    /\ LET cashflow == Cashflow(monthly_income, monthly_house_payment,
                                monthly_expense)
           stock == Plus(Compound(stock_amt, GrowthRet(payload)),
                         Times(cashflow, ratios[1]))
           bond == Plus(Compound(bond_amt, ConsRet(payload)),
                        Times(cashflow, ratios[2]))
           cash == Plus(Compound(cash_amt, CashRet(payload)),
                        Times(cashflow, ratios[3]))
           debt == AccumDebt(current_debt, monthly_house_payment)
       IN  /\ stock_amt' = stock
           /\ bond_amt' = bond
           /\ cash_amt' = cash
           /\ current_debt' = debt
           /\ financial_results' = Append(financial_results,
                 [age |-> cur_age,
                  month |-> MonthNumber(m),
                  net_worth |-> Plus(Plus(stock, bond), cash),
                  savings |-> Zero,
                  debt |-> debt,
                  monthly_income |-> monthly_income,
                  monthly_expense |-> monthly_expense,
                  total_expense |-> Plus(monthly_expense, monthly_house_payment),
                  stock_investment |-> stock,
                  bond_investment |-> bond,
                  cash_investment |-> cash,
                  real_estate_investment |-> Zero])
    /\ m' = m + 1
    /\ stepped' = [stepped EXCEPT !.accum = @ \cup {cur_age}]
    /\ UNCHANGED <<payload, pc, year_i, cur_age, monthly_income,
                   monthly_expense, monthly_house_payment, ratios, savings,
                   yearly_map, event_log, branches, call>>

\* f with key k set to v (dict assignment)
Put(f, k, v) == [x \in DOMAIN f \cup {k} |-> IF x = k THEN v ELSE f[x]]

\* simulation.py 130-147: year-end snapshot, next age
EndAccumYear ==
    /\ pc = "accum_month"
    /\ m = MonthsPerYear
    /\ ~SalaryGrowthRaises(payload)
    /\ yearly_map' = Put(yearly_map, cur_age,
          [monthly_income |-> monthly_income,
           monthly_expense |-> monthly_expense,
           savings |-> Zero,
           debt |-> current_debt,
           stock_investment |-> stock_amt,
           bond_investment |-> bond_amt,
           cash_investment |-> cash_amt,
           net_worth |-> Plus(Plus(stock_amt, bond_amt), cash_amt),
           yearly_withdrawn |-> Zero,
           monthly_house_payment |-> monthly_house_payment])
    /\ cur_age' = NextAge(cur_age)
    /\ monthly_expense' = GrowExpense(monthly_expense, Inflation(payload))
    /\ monthly_income' = GrowIncome(monthly_income, SalaryGrowth(payload))
    /\ year_i' = year_i + 1
    /\ pc' = "accum_year"
    /\ UNCHANGED <<payload, m, current_debt, monthly_house_payment, ratios,
                   stock_amt, bond_amt, cash_amt, savings, financial_results,
                   event_log, branches, stepped, call>>

\* simulation.py 150: the accumulation loop is over
BeginRetirement ==
    /\ pc = "accum_year"
    /\ year_i = Years(payload)
    /\ monthly_income' = Zero
    /\ year_i' = 0
    /\ pc' = "retire_year"
    /\ UNCHANGED <<payload, m, cur_age, monthly_expense, current_debt,
                   monthly_house_payment, ratios, stock_amt, bond_amt,
                   cash_amt, savings, financial_results, yearly_map,
                   event_log, branches, stepped, call>>

\* simulation.py 151: the head of one retirement year
StartRetireYear ==
    /\ pc = "retire_year"
    /\ year_i < YearsInRetirement(payload)
    /\ m' = 0
    /\ pc' = "retire_month"
    /\ UNCHANGED <<payload, year_i, cur_age, monthly_income, monthly_expense,
                   current_debt, monthly_house_payment, ratios, stock_amt,
                   bond_amt, cash_amt, savings, financial_results, yearly_map,
                   event_log, branches, stepped, call>>

\* simulation.py 152-202: one retirement month
RetireMonth ==
    /\ pc = "retire_month"
    /\ m < MonthsPerYear
    /\ ~CashReturnRaises(payload)
    /\ LET monthly_total_expense == Plus(monthly_expense, monthly_house_payment)
           w == Waterfall(Compound(cash_amt, CashRet(payload)),
                          Compound(bond_amt, ConsRet(payload)),
                          Compound(stock_amt, GrowthRet(payload)),
                          monthly_total_expense)
           debt == RetireDebt(current_debt, monthly_house_payment)
           total == Plus(Plus(w.stock, w.bond), w.cash)
       IN  /\ stock_amt' = w.stock
           /\ bond_amt' = w.bond
           /\ cash_amt' = w.cash
           /\ branches' = branches \cup {w.branch}
           /\ current_debt' = debt
           /\ savings' = total
           /\ financial_results' = Append(financial_results,
                 [age |-> cur_age,
                  month |-> MonthNumber(m),
                  net_worth |-> total,
                  savings |-> Zero,
                  debt |-> debt,
                  monthly_income |-> Zero,
                  monthly_expense |-> monthly_expense,
                  total_expense |-> monthly_total_expense,
                  stock_investment |-> Max0(w.stock),
                  bond_investment |-> Max0(w.bond),
                  cash_investment |-> Max0(w.cash),
                  real_estate_investment |-> Zero])
    /\ m' = m + 1
    /\ stepped' = [stepped EXCEPT !.retire = @ \cup {cur_age}]
    /\ UNCHANGED <<payload, pc, year_i, cur_age, monthly_income,
                   monthly_expense, monthly_house_payment, ratios, yearly_map,
                   event_log, call>>

\* simulation.py 204-224: year-end snapshot, next age, paid-off mortgage
EndRetireYear ==
    /\ pc = "retire_month"
    /\ m = MonthsPerYear
    /\ yearly_map' = Put(yearly_map, cur_age,
          [monthly_income |-> Zero,
           monthly_expense |-> monthly_expense,
           savings |-> Zero,
           debt |-> current_debt,
           stock_investment |-> Max0(stock_amt),
           bond_investment |-> Max0(bond_amt),
           cash_investment |-> Max0(cash_amt),
           net_worth |-> Max0(savings),
           yearly_withdrawn |->
               YearlyWithdrawn(Plus(monthly_expense, monthly_house_payment)),
           monthly_house_payment |-> monthly_house_payment])
    /\ cur_age' = NextAge(cur_age)
    /\ monthly_expense' = GrowExpense(monthly_expense, Inflation(payload))
    /\ monthly_house_payment' = PaidOff(current_debt, monthly_house_payment)
    /\ year_i' = year_i + 1
    /\ pc' = "retire_year"
    /\ UNCHANGED <<payload, m, monthly_income, current_debt, ratios,
                   stock_amt, bond_amt, cash_amt, savings, financial_results,
                   event_log, branches, stepped, call>>

\* simulation.py 226-234: the result is assembled and returned
Return ==
    /\ pc = "retire_year"
    /\ year_i = YearsInRetirement(payload)
    /\ event_log' = Append(event_log, [kind |-> "done"])
    /\ pc' = "done"
    /\ UNCHANGED <<payload, year_i, m, cur_age, monthly_income,
                   monthly_expense, current_debt, monthly_house_payment,
                   ratios, stock_amt, bond_amt, cash_amt, savings,
                   financial_results, yearly_map, branches, stepped, call>>

\* a TypeError or AttributeError leaves run_simulation: at the events of an
\* age (simulation.py 63-66), at the first read of cash_return in a month
\* (103, 159) or at the salary growth of the year end (147)
Raise ==
    /\ \/ /\ pc = "accum_year"
          /\ year_i < Years(payload)
          /\ EventsRaise(payload.life_planning, cur_age)
       \/ /\ pc \in {"accum_month", "retire_month"}
          /\ m < MonthsPerYear
          /\ CashReturnRaises(payload)
       \/ /\ pc = "accum_month"
          /\ m = MonthsPerYear
          /\ SalaryGrowthRaises(payload)
    /\ pc' = "raised"
    /\ UNCHANGED <<payload, year_i, m, cur_age, monthly_income,
                   monthly_expense, current_debt, monthly_house_payment,
                   ratios, stock_amt, bond_amt, cash_amt, savings,
                   financial_results, yearly_map, event_log, branches,
                   stepped, call>>

Next ==
    \/ StartAccumYear
    \/ AccumMonth
    \/ EndAccumYear
    \/ BeginRetirement
    \/ StartRetireYear
    \/ RetireMonth
    \/ EndRetireYear
    \/ Return
    \/ Raise

(***************************************************************************)
(* The payloads the model runs.                                            *)
(***************************************************************************)
MaxAccumYears == 2

MaxRetireYears == 2

MaxIncome == 4

MaxPrice == 10

Weights(young, middle, old) ==
    [young_growth_ratio |-> R(young[1]),
     young_conservative_ratio |-> R(young[2]),
     young_cash_reserve_ratio |-> R(young[3]),
     middle_growth_ratio |-> R(middle[1]),
     middle_conservative_ratio |-> R(middle[2]),
     middle_cash_reserve_ratio |-> R(middle[3]),
     old_growth_ratio |-> R(old[1]),
     old_conservative_ratio |-> R(old[2]),
     old_cash_reserve_ratio |-> R(old[3])]

House(price, down, loan_years) ==
    [type |-> BuyHouse,
     house_data |-> [house_price |-> price, down_payment_ratio |-> down,
                     loan_rate |-> <<3, 100>>, loan_years |-> loan_years]]

OtherEvent == [type |-> "planned", amount |-> 3]

\* <<age, retirement_age, life_expectancy>> as stored in the payload
Horizons ==
    { <<a, OrInt(a, DefaultAge) + y, OrInt(a, DefaultAge) + y + r>> :
        a \in {0, 40, 55}, y \in -1 .. MaxAccumYears, r \in -1 .. MaxRetireYears }
    \cup { <<DefaultRetirementAge - 1, 0, DefaultRetirementAge + 1>>,
           <<DefaultLifeExpectancy - 2, DefaultLifeExpectancy - 1, 0>> }

\* <<monthly_income, monthly_expense, debt, savings>>
Finances ==
    { <<0, 0, 0, 0>>, <<MaxIncome, 3, 0, 7>>, <<MaxIncome, 0, 5, 0>>,
      <<MaxIncome, MaxIncome + 1, 0, 0>>, <<MaxIncome, 3, -2, 0>> }

\* <<growth, conservative, cash, inflation, salary growth, weights>>
Portfolios ==
    { <<Zero, Zero, Zero, Zero, Zero,
        Weights(<<0, 0, 1>>, <<0, 0, 0>>, <<0, 0, 2>>)>>,
      <<R(-12), R(-12), Zero, One, One,
        Weights(<<1, 1, 1>>, <<1, 0, 1>>, <<0, 1, 0>>)>>,
      <<R(12), R(12), Zero, One, Zero,
        Weights(<<1, 1, 1>>, <<1, 1, 2>>, <<1, 0, 0>>)>>,
      <<R(-6), R(-6), R(-6), One, Zero,
        Weights(<<1, 1, 1>>, <<1, 1, 2>>, <<0, 1, 1>>)>> }

\* life_planning maps of a run that starts at age a
LifePlans(a) ==
    { << >>,
      (a :> << House(MaxPrice, 20, 1) >>),
      (a :> << OtherEvent, House(MaxPrice, 20, 2) >>),
      (a :> << House(MaxPrice, 50, 1), House(MaxPrice, 20, 2) >>),
      (a :> << House(MaxPrice, 20, 1) >>) @@ (a + 1 :> << House(MaxPrice, 200, 1) >>),
      (a + 1 :> << House(MaxPrice, 40, 0) >>) @@ (a + 2 :> << House(MaxPrice, 20, 1) >>) }

MkPayload(h, f, pf, lp) ==
    [player_status |-> [age |-> h[1], monthly_income |-> f[1],
                        monthly_expense |-> f[2], debt |-> f[3],
                        savings |-> f[4]],
     investment_config |->
         [retirement_age |-> h[2], life_expectancy |-> h[3],
          growth_return_rate |-> pf[1], conservative_return_rate |-> pf[2],
          cash_return |-> pf[3], inflation_rate |-> pf[4]] @@ pf[6],
     salary_config |-> [young_growth_rate |-> pf[5]],
     life_planning |-> lp]

\* the monthly payment of every house purchase of the payload
HousePayments(p) ==
    { calculate_monthly_payment(LoanAmount(e), LoanRate(e), LoanYears(e)) :
        e \in { ev \in UNION { { p.life_planning[a][j] :
                                  j \in 1 .. Len(p.life_planning[a]) } :
                              a \in DOMAIN p.life_planning } :
                  ev.type = BuyHouse } }

\* Balances stay exact fractions of 32-bit integers: a return that doubles or
\* halves a balance every month runs for at most two simulated years on
\* payments in thirds, and the default rates (3% and 7%) compound only a zero
\* balance or a short run.
Representable(p) ==
    LET t == Years(p) + YearsInRetirement(p)
        ic == p.investment_config
    IN  /\ (GrowthRet(p) \in {R(12), R(-6)} \/ ConsRet(p) \in {R(12), R(-6)})
              => /\ t <= 2
                 /\ \A pay \in HousePayments(p) : 3 % pay[2] = 0
        /\ ic.inflation_rate = Zero => t <= 3

\* a portfolio with a negative weight in the young bucket and a negative
\* total in the old bucket
NegativeWeights ==
    <<R(-12), R(-12), Zero, One, Zero,
      Weights(<<-1, 0, 2>>, <<1, 0, 1>>, <<-1, 0, 0>>)>>

\* a portfolio all in cash up to age 40 and all in stock from 41 to 55, the
\* stock doubling every month, with a salary that ends after the first year
LateStock ==
    <<R(12), R(12), Zero, One, R(-1),
      Weights(<<0, 0, 1>>, <<1, 0, 0>>, <<0, 0, 1>>)>>

\* d without the key k
Without(d, k) == [x \in DOMAIN d \ {k} |-> d[x]]

\* d with None under the key k
WithNull(d, k) ==
    ("nulls" :> (Nulls(d) \cup {k})) @@ Without(Without(d, k), "nulls")

\* the ways a payload p with a house purchase at its start age loses a field
\* that run_simulation reads without "or", or holds None in it
Shapes(p) ==
    LET a == Age(p)
        e == p.life_planning[a][1]
        WithEvent(ev) == [p EXCEPT !.life_planning = (a :> << ev >>)]
        WithHouseData(hd) == WithEvent([e EXCEPT !.house_data = hd])
    IN  { [p EXCEPT !.investment_config = Without(@, "cash_return")],
          [p EXCEPT !.investment_config = WithNull(@, "cash_return")],
          [p EXCEPT !.salary_config = Without(@, "young_growth_rate")],
          [p EXCEPT !.salary_config = WithNull(@, "young_growth_rate")],
          WithEvent(Without(e, "house_data")),
          WithEvent(WithNull(e, "house_data")) }
        \cup { WithHouseData(Without(e.house_data, k)) :
                 k \in {"down_payment_ratio", "loan_rate", "loan_years"} }
        \cup { WithHouseData(WithNull(e.house_data, k)) :
                 k \in {"down_payment_ratio", "loan_rate", "loan_years"} }

\* a portfolio without cash: every balance is spent or lost within the month
NoCash ==
    <<R(-12), R(-12), Zero, One, Zero,
      Weights(<<1, 1, 0>>, <<1, 0, 0>>, <<0, 1, 0>>)>>

ShapedPayloads ==
    UNION { Shapes(MkPayload(h, <<MaxIncome, 3, 0, 7>>, NoCash,
                             (h[1] :> << House(MaxPrice, 20, 1) >>))) :
              h \in { g \in Horizons : g[1] = 40 } }

\* the portfolio of tools/smoke_test_simple.py: all cash in the three life
\* stages, cash at 0% (inflation and salary growth at 100% a year)
AllCash ==
    <<Zero, Zero, Zero, One, One,
      Weights(<<0, 0, 1>>, <<0, 0, 1>>, <<0, 0, 1>>)>>

\* payloads of single scenarios, beside the product of the sets above
ScenarioPayloads ==
    { MkPayload(h, <<MaxIncome, 3, 0, 7>>, NegativeWeights, << >>) :
        h \in Horizons }
    \cup { MkPayload(h, <<MaxIncome, 3, 0, 7>>,
                     <<R(-12), R(-12), Zero, One, One,
                       Weights(<<1, 1, 1>>, <<1, 0, 1>>, <<0, 1, 0>>)>>,
                     (h[1] :> << House(MaxPrice, 20, 2) >>)
                         @@ (h[1] + 2 :> << House(MaxPrice, 20, 1) >>)) :
             h \in { g \in Horizons : g[1] = 40 /\ g[2] = 41 } }
    \cup { MkPayload(h, <<MaxIncome, 0, 5, 0>>, LateStock,
                     (h[1] + 1 :> << House(MaxPrice, 20, 1) >>)) :
             h \in { g \in Horizons : g[1] = 40 /\ g[2] = 42 /\ g[3] = 43 } }
    \cup ShapedPayloads
    \cup { MkPayload(h, <<MaxIncome, 1, 0, 0>>, AllCash, << >>) :
             h \in { g \in Horizons :
                       g[1] = 40 /\ g[1] < g[2] /\ g[2] < g[3] } }

Payloads ==
    { p \in { MkPayload(h, f, pf, lp) :
                h \in Horizons, f \in Finances, pf \in Portfolios,
                lp \in UNION { LifePlans(OrInt(a, DefaultAge)) : a \in {0, 40, 55} } } :
        /\ Representable(p)
        /\ DOMAIN p.life_planning \subseteq
              Age(p) .. Age(p) + 2 }
    \cup ScenarioPayloads

Init == \E p \in Payloads : InitRun(p)

Spec == Init /\ [][Next]_vars

(***************************************************************************)
(* Two calls of run_simulation with the same payload, one after the other: *)
(* call keeps what the first call returned (simulation.py 230-234), and    *)
(* the second call starts from its own locals (simulation.py 15-51).       *)
(***************************************************************************)
CallAgain ==
    /\ pc = "done"
    /\ call = NoCall
    /\ call' = [fn |-> "run_simulation",
                simulation_results |-> yearly_map,
                financial_results |-> financial_results,
                event_log |-> event_log]
    /\ pc' = "accum_year"
    /\ year_i' = 0
    /\ m' = 0
    /\ cur_age' = Age(payload)
    /\ monthly_income' = R(payload.player_status.monthly_income)
    /\ monthly_expense' = R(payload.player_status.monthly_expense)
    /\ current_debt' = R(payload.player_status.debt)
    /\ monthly_house_payment' = Zero
    /\ ratios' = <<Zero, Zero, Zero>>
    /\ stock_amt' = Zero
    /\ bond_amt' = Zero
    /\ cash_amt' = Zero
    /\ savings' = R(payload.player_status.savings)
    /\ financial_results' = FreshList(financial_results)
    /\ yearly_map' = << >>
    /\ event_log' = StartOfLog(payload)
    /\ branches' = {}
    /\ stepped' = [accum |-> {}, retire |-> {}]
    /\ UNCHANGED payload

TwicePayloads ==
    { p \in Payloads :
        /\ p.player_status.age = 40
        /\ p.player_status.monthly_income = MaxIncome
        /\ p.player_status.monthly_expense = 3 }

InitTwice == \E p \in TwicePayloads : InitRun(p)

NextTwice ==
    \/ Next
    \/ CallAgain

SpecTwice == InitTwice /\ [][NextTwice]_vars

(***************************************************************************)
(* Two calls of run_simulation whose payloads differ only in the events    *)
(* of life_planning that are no house purchase: call keeps what the first  *)
(* call returned and the life_planning it was given.                       *)
(***************************************************************************)
\* fire_streamlit.py 1795-1799: the event the dice game files
DiceEvent ==
    [type |-> "dice_event", description |-> "medical", financial_impact |-> -5,
     source |-> "dice_game"]

\* life_planning without its events that are no house purchase
HouseEventsOnly(life_planning) ==
    [a \in DOMAIN life_planning |->
        SelectSeq(life_planning[a], LAMBDA event : event.type = BuyHouse)]

\* fire_streamlit.py 1795-1799: life_planning[trigger_age].append(dice_event)
add_dice_event_to_planning(life_planning, trigger_age) ==
    Put(life_planning, trigger_age,
        Append(Get(life_planning, trigger_age, << >>), DiceEvent))

\* the maps that differ from life_planning in events that are no house
\* purchase only
OtherEventVariants(life_planning, ages) ==
    ({ HouseEventsOnly(life_planning) }
     \cup { add_dice_event_to_planning(life_planning, a) : a \in ages })
    \ { life_planning }

CallVariant ==
    /\ pc = "done"
    /\ call = NoCall
    /\ \E lp \in OtherEventVariants(payload.life_planning,
                      Age(payload) .. Age(payload) + 1) :
          payload' = [payload EXCEPT !.life_planning = lp]
    /\ call' = [fn |-> "run_simulation",
                life_planning |-> payload.life_planning,
                simulation_results |-> yearly_map,
                financial_results |-> financial_results,
                event_log |-> event_log]
    /\ pc' = "accum_year"
    /\ year_i' = 0
    /\ m' = 0
    /\ cur_age' = Age(payload)
    /\ monthly_income' = R(payload.player_status.monthly_income)
    /\ monthly_expense' = R(payload.player_status.monthly_expense)
    /\ current_debt' = R(payload.player_status.debt)
    /\ monthly_house_payment' = Zero
    /\ ratios' = <<Zero, Zero, Zero>>
    /\ stock_amt' = Zero
    /\ bond_amt' = Zero
    /\ cash_amt' = Zero
    /\ savings' = R(payload.player_status.savings)
    /\ financial_results' = FreshList(financial_results)
    /\ yearly_map' = << >>
    /\ event_log' = StartOfLog(payload)
    /\ branches' = {}
    /\ stepped' = [accum |-> {}, retire |-> {}]

InitVariant == \E p \in TwicePayloads : InitRun(p)

NextVariant ==
    \/ Next
    \/ CallVariant

SpecVariant == InitVariant /\ [][NextVariant]_vars

(***************************************************************************)
(* fire_calculations.py: the FIRE targets and check_fire_achievement.      *)
(* A snapshot map is a function from keys to snapshots; a key is           *)
(* <<"int", a>> for the integer a and <<"str", a>> for the text of a.      *)
(* A nullable age is << >> for None and <<a>> for the age a.               *)
(***************************************************************************)
\* x ** n for an integer n (float power: a negative n is the reciprocal)
RECURSIVE Pow(_, _)
Pow(x, n) ==
    IF n = 0 THEN One
    ELSE IF n < 0 THEN Over(One, Pow(x, -n))
    ELSE Times(x, Pow(x, n - 1))

\* fire_calculations.py 48: abs(r - g) < 1e-6
NearlyEqual(r, g) ==
    LET diff == Minus(r, g)
    IN  Lt(IF diff[1] < 0 THEN Neg(diff) ELSE diff, <<1, 1000000>>)

\* fire_calculations.py 49, 51: both formulas divide by (1 + r), and the
\* second by (r - g), which is not 0 there
GrowingAnnuityRaises(annual_expense, years, real_return_rate, inflation_rate) ==
    /\ years > 0
    /\ Lt(Zero, annual_expense)
    /\ Plus(One, real_return_rate) = Zero

\* a fault of calculate_growing_annuity_present_value: the limiting case
\* discounts by the inflation rate
calculate_growing_annuity_present_value_LimitByInflation(annual_expense, years, real_return_rate, inflation_rate) ==
    IF years <= 0 \/ Le(annual_expense, Zero)
    THEN Zero
    ELSE IF NearlyEqual(real_return_rate, inflation_rate)
    THEN Over(Times(annual_expense, R(years)), Plus(One, inflation_rate))
    ELSE Over(Times(annual_expense,
                    Minus(One, Pow(Over(Plus(One, inflation_rate),
                                        Plus(One, real_return_rate)), years))),
              Minus(real_return_rate, inflation_rate))

\* fire_calculations.py 16-51
calculate_growing_annuity_present_value(annual_expense, years, real_return_rate, inflation_rate) ==
    IF years <= 0 \/ Le(annual_expense, Zero)
    THEN Zero
    ELSE IF NearlyEqual(real_return_rate, inflation_rate)
    THEN Over(Times(annual_expense, R(years)), Plus(One, real_return_rate))
    ELSE Over(Times(annual_expense,
                    Minus(One, Pow(Over(Plus(One, inflation_rate),
                                        Plus(One, real_return_rate)), years))),
              Minus(real_return_rate, inflation_rate))

\* fire_calculations.py 53-97
calculate_retirement_target_growing_annuity(current_monthly_expense, current_age, retirement_age, life_expectancy, inflation_rate, real_return_rate) ==
    LET years_to_retirement == Max(0, retirement_age - current_age)
        retirement_annual_expense ==
            Times(Times(current_monthly_expense, R(12)),
                  Pow(Plus(One, inflation_rate), years_to_retirement))
        years_in_retirement == Max(0, life_expectancy - retirement_age)
    IN  calculate_growing_annuity_present_value(retirement_annual_expense,
            years_in_retirement, real_return_rate, inflation_rate)

\* fire_calculations.py 99-128
calculate_retirement_target_traditional_25x(current_monthly_expense, current_age, retirement_age, inflation_rate) ==
    LET years_to_retirement == Max(0, retirement_age - current_age)
        retirement_annual_expense ==
            Times(Times(current_monthly_expense, R(12)),
                  Pow(Plus(One, inflation_rate), years_to_retirement))
    IN  Times(retirement_annual_expense, R(25))

\* fire_calculations.py 187-193: the inputs of check_fire_achievement, each
\* read as "x or default"
FireInputs(player_status, investment_config) ==
    [retirement_age |->
         OrInt(investment_config.retirement_age, DefaultRetirementAge),
     life_expectancy |->
         OrInt(investment_config.life_expectancy, DefaultLifeExpectancy),
     inflation |-> OrFloat(investment_config.inflation_rate, DefaultInflation),
     conservative |->
         OrFloat(investment_config.conservative_return_rate, DefaultConsRet),
     current_age |-> OrInt(player_status.age, DefaultAge),
     current_monthly_expense |-> R(player_status.monthly_expense)]

\* "age in simulation_results" for an integer age: a textual key is not
\* equal to the integer
HasIntKey(simulation_results, age) ==
    <<"int", age>> \in DOMAIN simulation_results

\* fire_calculations.py 205-230: the two targets of the result
FireTargets(simulation_results, in) ==
    IF HasIntKey(simulation_results, in.retirement_age)
    THEN LET retirement_expenses ==
                 Times(Get(simulation_results[<<"int", in.retirement_age>>],
                           "monthly_expense", Zero), R(12))
             years == Max(0, in.life_expectancy - in.retirement_age)
         IN  [growing |-> calculate_growing_annuity_present_value(
                              retirement_expenses, years, in.conservative,
                              in.inflation),
              traditional |-> Times(retirement_expenses, R(25))]
    ELSE [growing |-> calculate_retirement_target_growing_annuity(
                          in.current_monthly_expense, in.current_age,
                          in.retirement_age, in.life_expectancy, in.inflation,
                          in.conservative),
          traditional |-> calculate_retirement_target_traditional_25x(
                          in.current_monthly_expense, in.current_age,
                          in.retirement_age, in.inflation)]

\* fire_calculations.py 246-247: the annual expense at an age
FutureExpense(age, in) ==
    Times(Times(in.current_monthly_expense, R(12)),
          Pow(Plus(One, in.inflation), age - in.current_age))

\* fire_calculations.py 250-255
AgeTargetGrowing(age, in) ==
    calculate_growing_annuity_present_value(FutureExpense(age, in),
        in.life_expectancy - age, in.conservative, in.inflation)

\* fire_calculations.py 258
AgeTargetTraditional(age, in) == Times(FutureExpense(age, in), R(25))

\* a fault of ScanStep: one age is credited to one formula only
ScanStep_OneFormulaPerAge(result, key, data, in) ==
    LET age == key[2]
        net_worth == Get(data, "net_worth", Zero)
    IN  IF in.life_expectancy - age <= 0
        THEN result
        ELSE IF result.fire_age_growing = << >>
                /\ Le(AgeTargetGrowing(age, in), net_worth)
        THEN [result EXCEPT !.fire_age_growing = <<age>>,
                            !.achievements = Append(@, <<"growing", age>>)]
        ELSE IF result.fire_age_traditional = << >>
                /\ Le(AgeTargetTraditional(age, in), net_worth)
        THEN [result EXCEPT !.fire_age_traditional = <<age>>,
                            !.achievements = Append(@, <<"traditional", age>>)]
        ELSE result

\* fire_calculations.py 233-267: the body of the scan for one key
ScanStep(result, key, data, in) ==
    LET age == key[2]
        net_worth == Get(data, "net_worth", Zero)
        growing == result.fire_age_growing = << >>
                   /\ Le(AgeTargetGrowing(age, in), net_worth)
        r1 == IF growing
              THEN [result EXCEPT !.fire_age_growing = <<age>>,
                                  !.achievements = Append(@, <<"growing", age>>)]
              ELSE result
        traditional == r1.fire_age_traditional = << >>
                       /\ Le(AgeTargetTraditional(age, in), net_worth)
    IN  IF in.life_expectancy - age <= 0
        THEN result
        ELSE IF traditional
        THEN [r1 EXCEPT !.fire_age_traditional = <<age>>,
                        !.achievements = Append(@, <<"traditional", age>>)]
        ELSE r1

\* fire_calculations.py 232: the keys are visited in the order of their
\* integer values (two keys of one value: either order gives the same ages)
RECURSIVE Scan(_, _, _, _)
Scan(keys, simulation_results, in, result) ==
    IF keys = {}
    THEN result
    ELSE LET key == CHOOSE x \in keys : \A y \in keys : x[2] <= y[2]
         IN  Scan(keys \ {key}, simulation_results, in,
                  ScanStep(result, key, simulation_results[key], in))

\* 4% of the net worth
SafeWithdrawalRate == <<4, 100>>

\* fire_calculations.py 269-278: the summary of the retirement age, {} when
\* the integer retirement age is not a key of the map
RetirementStatus(simulation_results, retirement_age) ==
    IF HasIntKey(simulation_results, retirement_age)
    THEN LET retirement_data == simulation_results[<<"int", retirement_age>>]
             net_worth == Get(retirement_data, "net_worth", Zero)
             expense == Get(retirement_data, "monthly_expense", Zero)
         IN  [age |-> retirement_age,
              net_worth |-> net_worth,
              monthly_expense |-> expense,
              annual_expense |-> Times(expense, R(12)),
              safe_withdrawal |-> Times(net_worth, SafeWithdrawalRate)]
    ELSE << >>

\* fire_calculations.py 171-280
check_fire_achievement(simulation_results, player_status, investment_config) ==
    LET in == FireInputs(player_status, investment_config)
        targets == FireTargets(simulation_results, in)
        scanned == Scan(DOMAIN simulation_results, simulation_results, in,
                        [fire_age_growing |-> << >>,
                         fire_age_traditional |-> << >>,
                         achievements |-> << >>])
    IN  [fire_age_growing |-> scanned.fire_age_growing,
         fire_age_traditional |-> scanned.fire_age_traditional,
         fire_target_growing |-> targets.growing,
         fire_target_traditional |-> targets.traditional,
         retirement_status |->
             RetirementStatus(simulation_results, in.retirement_age),
         achievements |-> scanned.achievements]

(***************************************************************************)
(* The dice game: start_dice_game (main.py 213-271) and                    *)
(* roll_double_dice_streamlit (fire_streamlit.py 1775-1793).                *)
(***************************************************************************)
\* main.py 232: min_age = max(int(current_age), 25)
DiceFloorAge == 25

DiceFaces == 1 .. 6

\* main.py 235-238, fire_streamlit.py 1780-1783: the ages random.randint
\* can return, or min_age alone when min_age >= max_age
TriggerAges(min_age, max_age) ==
    IF min_age >= max_age THEN {min_age} ELSE min_age .. max_age

\* main.py 232-238
StartDiceGameAges(current_age, retirement_age) ==
    TriggerAges(Max(current_age, DiceFloorAge), retirement_age - 1)

\* fire_streamlit.py 1778-1783
RollDoubleDiceAges(current_age, player_age, retirement_age) ==
    TriggerAges(Max(current_age, player_age), retirement_age - 1)

(***************************************************************************)
(* Calls of the pure functions, each on its own: call holds the            *)
(* arguments and, once the function has returned, its result.              *)
(***************************************************************************)
MaxPrincipal == 6

MaxLoanYears == 3

MaxWeight == 2

PaymentCalls ==
    { [fn |-> "calculate_monthly_payment", principal |-> Norm(n, d),
       annual_rate |-> r, years |-> y, returned |-> FALSE, ret |-> Zero] :
        n \in -2 .. MaxPrincipal, d \in {1, 5},
        r \in {Zero, <<3, 100>>, One}, y \in -1 .. MaxLoanYears }

RawWeights == { <<Norm(a, 10), Norm(b, 10), Norm(c, 10)>> :
                  a \in -1 .. MaxWeight, b \in 0 .. MaxWeight, c \in 0 .. MaxWeight }

WeightsOf(young, middle, old) ==
    [young_growth_ratio |-> young[1],
     young_conservative_ratio |-> young[2],
     young_cash_reserve_ratio |-> young[3],
     middle_growth_ratio |-> middle[1],
     middle_conservative_ratio |-> middle[2],
     middle_cash_reserve_ratio |-> middle[3],
     old_growth_ratio |-> old[1],
     old_conservative_ratio |-> old[2],
     old_cash_reserve_ratio |-> old[3]]

AllocationCalls ==
    { [fn |-> "get_allocation_ratios", age |-> a,
       investment_config |-> WeightsOf(t[1], t[2], t[3]),
       returned |-> FALSE, ret |-> <<Zero, Zero, Zero>>] :
        a \in {0, 25, 40, 41, 55, 56, 85},
        t \in { <<w, u, v>> : w \in RawWeights,
                  u \in {<<Zero, Zero, Zero>>, <<One, Zero, Zero>>},
                  v \in {<<Zero, Zero, Zero>>, <<Zero, One, One>>} }
              \cup { <<u, w, <<Zero, Zero, Zero>> >> : w \in RawWeights,
                  u \in {<<Zero, Zero, Zero>>, <<One, Zero, Zero>>} }
              \cup { << <<Zero, Zero, Zero>>, u, w>> : w \in RawWeights,
                  u \in {<<Zero, Zero, Zero>>, <<One, Zero, Zero>>} } }

MaxAnnuityYears == 3

\* pairs <<real return rate, inflation rate>>: equal, nearly equal (less
\* than 1e-6 apart), apart, and a real return rate of -100%
AnnuityRates ==
    { <<r, g>> : r \in {Neg(One), <<-1, 2>>, Zero, <<1, 2>>},
                 g \in {<<-1, 2>>, Zero, <<1, 2>>, One} }
    \cup { << <<3, 100>>, <<3, 100>> >>,
           << <<3, 100>>, <<300001, 10000000>> >>,
           << <<300001, 10000000>>, <<3, 100>> >>,
           << <<1, 10>>, Zero >>, << <<1, 2>>, <<3, 100>> >> }

AnnuityCalls ==
    { [fn |-> "calculate_growing_annuity_present_value",
       annual_expense |-> R(e), years |-> n,
       real_return_rate |-> rg[1], inflation_rate |-> rg[2],
       returned |-> FALSE, raised |-> FALSE, ret |-> Zero] :
        e \in {-1, 0, 1, 12}, n \in -1 .. MaxAnnuityYears,
        rg \in AnnuityRates }

MaxScanYears == 3

NetWorths == {R(-1), R(0), R(24), R(300), R(504)}

\* the snapshot maps with no key, one key or two keys of one kind
SnapshotMaps(kind, ages, expense) ==
    UNION { [ { <<kind, a>>, <<kind, b>> } ->
              { [net_worth |-> w, monthly_expense |-> R(expense)] :
                  w \in NetWorths } ] :
            a \in ages, b \in ages }
    \cup { << >> }

\* maps with an integer key and a textual key of one age, and a map whose
\* snapshot has no net worth
OddMaps(age, expense) ==
    { (<<"int", age>> :> [net_worth |-> w[1], monthly_expense |-> R(expense)])
      @@ (<<"str", age>> :> [net_worth |-> w[2], monthly_expense |-> R(expense)]) :
        w \in NetWorths \X NetWorths }
    \cup { (<<"int", age>> :> [monthly_expense |-> R(expense)]) }

\* the calls of one person: the keys run from one year before the current
\* age to the life expectancy
FireCallsOf(age, expense, years, rates) ==
    LET current_age == OrInt(age, DefaultAge)
    IN  { [fn |-> "check_fire_achievement",
           simulation_results |-> sr,
           player_status |-> [age |-> age, monthly_expense |-> expense],
           investment_config |->
               [retirement_age |-> current_age + years,
                life_expectancy |-> current_age + MaxScanYears,
                inflation_rate |-> rates[1],
                conservative_return_rate |-> rates[2]],
           returned |-> FALSE,
           ret |-> << >>] :
            sr \in SnapshotMaps("int",
                       current_age - 1 .. current_age + MaxScanYears, expense)
                   \cup SnapshotMaps("str",
                       current_age - 1 .. current_age + MaxScanYears, expense)
                   \cup OddMaps(current_age + 1, expense) }

FireCalls ==
    UNION { FireCallsOf(a, e, y, rates) :
              a \in {0, 40}, e \in {0, 1}, y \in {1, 2},
              rates \in { <<Zero, Zero>>, <<One, <<-1, 2>> >> } }

MaxDiceSpan == 3

\* start_dice_game reads the age and the retirement age of the server state;
\* roll_double_dice_streamlit is passed the age selected on the board as well
DiceCalls ==
    { [fn |-> "start_dice_game", player_age |-> a, retirement_age |-> a + k,
       random_events |-> << >>, returned |-> FALSE, ret |-> << >>] :
        a \in {20, 25, 27}, k \in -1 .. MaxDiceSpan + 3 }
    \cup
    { [fn |-> "roll_double_dice_streamlit", current_age |-> a + s,
       player_age |-> a, retirement_age |-> a + k,
       returned |-> FALSE, ret |-> << >>] :
        a \in {20, 27}, s \in {0, 1}, k \in -1 .. MaxDiceSpan }

\* no run_simulation call is in progress
Idle ==
    /\ payload = [none |-> TRUE]
    /\ pc = "idle"
    /\ year_i = 0
    /\ m = 0
    /\ cur_age = 0
    /\ monthly_income = Zero
    /\ monthly_expense = Zero
    /\ current_debt = Zero
    /\ monthly_house_payment = Zero
    /\ ratios = <<Zero, Zero, Zero>>
    /\ stock_amt = Zero
    /\ bond_amt = Zero
    /\ cash_amt = Zero
    /\ savings = Zero
    /\ financial_results = << >>
    /\ yearly_map = << >>
    /\ event_log = << >>
    /\ branches = {}
    /\ stepped = [accum |-> {}, retire |-> {}]

simvars == <<payload, pc, year_i, m, cur_age, monthly_income, monthly_expense,
             current_debt, monthly_house_payment, ratios, stock_amt, bond_amt,
             cash_amt, savings, financial_results, yearly_map, event_log,
             branches, stepped>>

InitCalls ==
    /\ Idle
    /\ call \in PaymentCalls \cup AllocationCalls \cup AnnuityCalls
                \cup FireCalls \cup DiceCalls

CallMonthlyPayment ==
    /\ call.fn = "calculate_monthly_payment"
    /\ ~call.returned
    /\ call' = [call EXCEPT
                  !.ret = calculate_monthly_payment(call.principal,
                              call.annual_rate, call.years),
                  !.returned = TRUE]
    /\ UNCHANGED simvars

CallAllocationRatios ==
    /\ call.fn = "get_allocation_ratios"
    /\ ~call.returned
    /\ call' = [call EXCEPT
                  !.ret = get_allocation_ratios(call.age, call.investment_config),
                  !.returned = TRUE]
    /\ UNCHANGED simvars

CallGrowingAnnuity ==
    /\ call.fn = "calculate_growing_annuity_present_value"
    /\ ~call.returned
    /\ ~call.raised
    /\ ~GrowingAnnuityRaises(call.annual_expense, call.years,
                             call.real_return_rate, call.inflation_rate)
    /\ call' = [call EXCEPT
                  !.ret = calculate_growing_annuity_present_value(
                              call.annual_expense, call.years,
                              call.real_return_rate, call.inflation_rate),
                  !.returned = TRUE]
    /\ UNCHANGED simvars

\* ZeroDivisionError leaves calculate_growing_annuity_present_value
GrowingAnnuityRaise ==
    /\ call.fn = "calculate_growing_annuity_present_value"
    /\ ~call.returned
    /\ ~call.raised
    /\ GrowingAnnuityRaises(call.annual_expense, call.years,
                            call.real_return_rate, call.inflation_rate)
    /\ call' = [call EXCEPT !.raised = TRUE]
    /\ UNCHANGED simvars

CallCheckFire ==
    /\ call.fn = "check_fire_achievement"
    /\ ~call.returned
    /\ call' = [call EXCEPT
                  !.ret = check_fire_achievement(call.simulation_results,
                              call.player_status, call.investment_config),
                  !.returned = TRUE]
    /\ UNCHANGED simvars

\* main.py 213-271: the dice are rolled, the event is filed under the
\* trigger age in state.random_events
CallStartDiceGame ==
    /\ call.fn = "start_dice_game"
    /\ ~call.returned
    /\ \E age_dice \in DiceFaces, event_dice \in DiceFaces,
          trigger_age \in StartDiceGameAges(call.player_age,
                                            call.retirement_age) :
          call' = [call EXCEPT
                     !.random_events =
                         Put(call.random_events, trigger_age,
                             Append(Get(call.random_events, trigger_age, << >>),
                                    [type |-> "random_event",
                                     event |-> event_dice])),
                     !.ret = [age_dice |-> age_dice, event_dice |-> event_dice,
                              trigger_age |-> trigger_age],
                     !.returned = TRUE]
    /\ UNCHANGED simvars

\* fire_streamlit.py 1775-1793
CallRollDoubleDice ==
    /\ call.fn = "roll_double_dice_streamlit"
    /\ ~call.returned
    /\ \E age_dice \in DiceFaces, event_dice \in DiceFaces,
          trigger_age \in RollDoubleDiceAges(call.current_age,
                              call.player_age, call.retirement_age) :
          call' = [call EXCEPT
                     !.ret = [age_dice |-> age_dice, event_dice |-> event_dice,
                              trigger_age |-> trigger_age],
                     !.returned = TRUE]
    /\ UNCHANGED simvars

NextCalls ==
    \/ CallStartDiceGame
    \/ CallRollDoubleDice
    \/ CallMonthlyPayment
    \/ CallAllocationRatios
    \/ CallGrowingAnnuity
    \/ GrowingAnnuityRaise
    \/ CallCheckFire

SpecCalls == InitCalls /\ [][NextCalls]_vars

(***************************************************************************)
(* Helpers of the properties.                                              *)
(***************************************************************************)
Snap(i) == financial_results[i]

NSnaps == Len(financial_results)

\* the snapshots 1 .. AccumSnaps(payload) are those of the accumulation loop
AccumMonths == Years(payload) * MonthsPerYear

IsHouseEventAt(age) ==
    /\ age \in DOMAIN payload.life_planning
    /\ \E j \in 1 .. Len(payload.life_planning[age]) :
          payload.life_planning[age][j].type = BuyHouse

\* C1: after every simulated month of either phase each of the three
\* asset-class balances (growth, conservative, cash) is >= 0, whatever the
\* income, expense, house payment and return rates.
C1_BalancesNeverNegative ==
    /\ Le(Zero, stock_amt)
    /\ Le(Zero, bond_amt)
    /\ Le(Zero, cash_amt)
    /\ \A i \in 1 .. NSnaps :
          /\ Le(Zero, Snap(i).stock_investment)
          /\ Le(Zero, Snap(i).bond_investment)
          /\ Le(Zero, Snap(i).cash_investment)

\* C2: over the monthly snapshots the debt never increases from one snapshot
\* to the next unless a house-purchase event is processed at the start of
\* that age, and the debt is >= 0 in every snapshot, for any initial debt and
\* any house-purchase data.
C2_DebtMonotoneNonNegative ==
    \A i \in 1 .. NSnaps :
        /\ Le(Zero, Snap(i).debt)
        /\ i > 1 =>
              \/ Le(Snap(i).debt, Snap(i - 1).debt)
              \/ /\ Snap(i).month = 1
                 /\ i <= AccumMonths
                 /\ IsHouseEventAt(Snap(i).age)

\* C3: the retirement withdrawal waterfall.  In a retirement month, after
\* compounding, (a) if cash >= outflow only cash is reduced, by the outflow;
\* (b) if cash < outflow <= cash + conservative, cash becomes 0, conservative
\* is reduced by outflow - cash and growth is untouched; (c) otherwise cash
\* and conservative become 0 and growth is reduced by the remainder, floored
\* at 0.
C3_Waterfall ==
    [][ (pc = "retire_month" /\ m' = m + 1) =>
          LET cash == Times(cash_amt, Plus(One, Over(CashRet(payload), R(12))))
              bond == Times(bond_amt, Plus(One, Over(ConsRet(payload), R(12))))
              stock == Times(stock_amt, Plus(One, Over(GrowthRet(payload), R(12))))
              outflow == Plus(monthly_expense, monthly_house_payment)
              rest == Minus(outflow, Plus(cash, bond))
          IN  /\ Le(outflow, cash) =>
                    /\ cash_amt' = Minus(cash, outflow)
                    /\ bond_amt' = bond
                    /\ stock_amt' = stock
              /\ (Lt(cash, outflow) /\ Le(outflow, Plus(cash, bond))) =>
                    /\ cash_amt' = Zero
                    /\ bond_amt' = Minus(bond, Minus(outflow, cash))
                    /\ stock_amt' = stock
              /\ Lt(Plus(cash, bond), outflow) =>
                    /\ cash_amt' = Zero
                    /\ bond_amt' = Zero
                    /\ stock_amt' = IF Lt(stock, rest) THEN Zero
                                    ELSE Minus(stock, rest)
      ]_vars

\* a run in which the cash, then the conservative, then the growth balance
\* was drawn on
C3_Witness == branches = {"cash", "bond", "stock"}

\* C4: financial_results is strictly increasing in (age, month), every
\* simulated age contributes exactly the months 1..12 in order, consecutive
\* ages differ by exactly 1, and no (age, month) pair occurs twice.
C4_SnapshotOrder ==
    /\ NSnaps > 0 => Snap(1).month = 1 /\ Snap(1).age = Age(payload)
    /\ \A i \in 2 .. NSnaps :
          \/ /\ Snap(i).age = Snap(i - 1).age
             /\ Snap(i).month = Snap(i - 1).month + 1
          \/ /\ Snap(i).age = Snap(i - 1).age + 1
             /\ Snap(i - 1).month = 12
             /\ Snap(i).month = 1
    /\ \A i \in 1 .. NSnaps : Snap(i).month \in 1 .. 12
    /\ pc = "done" =>
          /\ NSnaps > 0 => Snap(NSnaps).month = 12
          /\ \A i, j \in 1 .. NSnaps :
                i < j => \/ Snap(i).age < Snap(j).age
                         \/ /\ Snap(i).age = Snap(j).age
                            /\ Snap(i).month < Snap(j).month

C4_Witness ==
    /\ pc = "done"
    /\ NSnaps = 48
    /\ stepped.accum # {}
    /\ stepped.retire # {}

\* C5: accumulation steps are taken exactly for the ages start ..
\* retirement age - 1, retirement steps exactly for the ages retirement age ..
\* life expectancy - 1, and no accumulation step follows a retirement step,
\* for every (start age, retirement age, life expectancy).
C5_PhaseStructure ==
    /\ stepped.accum \subseteq Age(payload) .. RetirementAge(payload) - 1
    /\ stepped.retire \subseteq
          RetirementAge(payload) .. LifeExpectancy(payload) - 1
    /\ pc = "done" =>
          /\ stepped.accum = Age(payload) .. RetirementAge(payload) - 1
          /\ stepped.retire =
                RetirementAge(payload) .. LifeExpectancy(payload) - 1
    /\ pc \in {"accum_year", "accum_month"} => stepped.retire = {}

\* C6: every call performs at most (life_expectancy - start_age) * 12
\* monthly steps (none when that is negative) before it terminates, for
\* every start age, retirement age and life expectancy.
C6_StepBound ==
    NSnaps <= Max(0, LifeExpectancy(payload) - Age(payload)) * 12

(***************************************************************************)
(* Mortgage origination as the payload states it.                          *)
(***************************************************************************)
HouseIndexes(age) ==
    { j \in 1 .. Len(payload.life_planning[age]) :
        payload.life_planning[age][j].type = BuyHouse }

\* the house purchase stored last at an age with one
LastHouse(age) ==
    LET js == HouseIndexes(age)
        e == payload.life_planning[age][CHOOSE j \in js : \A k \in js : k <= j]
    IN  [house_price |-> HousePrice(e),
         down_payment_ratio |-> DownPaymentRatio(e),
         loan_years |-> LoanYears(e)]

\* price * (1 - down payment fraction)
Principal(h) == Norm(h.house_price * (100 - h.down_payment_ratio), 100)

JustOriginated ==
    /\ pc = "accum_month"
    /\ m = 0
    /\ IsHouseEventAt(cur_age)

\* Original statement of C7: the payment is principal / (term_years * 12)
\* for whatever principal and term the event carries.
C7_PaymentAlwaysLinear ==
    JustOriginated =>
        LET h == LastHouse(cur_age)
        IN  /\ current_debt = Principal(h)
            /\ h.loan_years # 0 =>
                  monthly_house_payment = Norm(Principal(h)[1],
                                               Principal(h)[2] * h.loan_years * 12)

\* C7 (amended): a house-purchase event keyed to an accumulation age a sets
\* the debt to price * (1 - down-payment fraction), replacing the earlier
\* debt, and sets the monthly house payment to principal / (term_years * 12)
\* when principal > 0 and term_years > 0 and to 0 otherwise, both effective
\* from the first month of age a; of several house purchases stored at one
\* age the last one determines debt and payment.
C7_Origination ==
    /\ JustOriginated =>
          LET h == LastHouse(cur_age)
          IN  /\ current_debt = Principal(h)
              /\ monthly_house_payment =
                    IF Principal(h)[1] > 0 /\ h.loan_years > 0
                    THEN Norm(Principal(h)[1],
                              Principal(h)[2] * h.loan_years * 12)
                    ELSE Zero
    /\ \A i \in 1 .. NSnaps :
          (i <= AccumMonths /\ Snap(i).month = 1 /\ IsHouseEventAt(Snap(i).age)) =>
              LET h == LastHouse(Snap(i).age)
                  pay == IF Principal(h)[1] > 0 /\ h.loan_years > 0
                         THEN Norm(Principal(h)[1],
                                   Principal(h)[2] * h.loan_years * 12)
                         ELSE Zero
              IN  /\ Snap(i).total_expense = Plus(Snap(i).monthly_expense, pay)
                  /\ Snap(i).debt = IF Principal(h)[1] > 0 /\ pay[1] > 0
                                    THEN Max0(Minus(Principal(h), pay))
                                    ELSE Principal(h)

\* two house purchases stored at one age have just been processed over an
\* earlier debt of another amount
C7_Witness ==
    /\ JustOriginated
    /\ Cardinality(HouseIndexes(cur_age)) = 2
    /\ payload.player_status.debt > 0
    /\ current_debt # R(payload.player_status.debt)
    /\ Lt(Zero, monthly_house_payment)

\* the accumulation ages whose house purchases the run processes
HouseAges ==
    { a \in DOMAIN payload.life_planning :
        /\ IsHouseEventAt(a)
        /\ Age(payload) <= a
        /\ a < Age(payload) + Years(payload) }

\* the age of the latest origination at or before snapshot i (0: none)
OriginAge(i) ==
    LET as == { a \in HouseAges : a <= Snap(i).age }
    IN  IF as = {} \/ i > NSnaps THEN 0
        ELSE CHOOSE a \in as : \A b \in as : b <= a

\* months from the latest origination to snapshot i, that month included
MonthsSince(i) == i - (OriginAge(i) - Age(payload)) * 12

\* C8: after a house purchase with principal P > 0 and term T > 0 years, and
\* until a later house purchase, the debt in the k-th monthly snapshot after
\* origination is P - k * P / (T * 12) for k <= T * 12 and 0 afterwards, in
\* the accumulation and in the retirement phase.
C8_LinearPayoff ==
    \A i \in 1 .. NSnaps :
        OriginAge(i) # 0 =>
            LET h == LastHouse(OriginAge(i))
                P == Principal(h)
                T == h.loan_years
                k == MonthsSince(i)
            IN  (P[1] > 0 /\ T > 0) =>
                    Snap(i).debt =
                        IF k <= T * 12
                        THEN Norm(P[1] * (T * 12 - k), P[2] * T * 12)
                        ELSE Zero

\* a mortgage whose last instalment falls in the retirement phase, seen one
\* month after it is paid off
C8_Witness ==
    \E i \in 2 .. NSnaps - 1 :
        /\ i > AccumMonths
        /\ OriginAge(i) # 0
        /\ LastHouse(OriginAge(i)).loan_years > 0
        /\ MonthsSince(i) = LastHouse(OriginAge(i)).loan_years * 12
        /\ Lt(Zero, Snap(i - 1).debt)
        /\ Snap(i).debt = Zero
        /\ Snap(i + 1).debt = Zero

\* C9: calculate_monthly_payment(principal, rate, years) returns
\* principal / (years * 12) whatever the rate when principal > 0 and
\* years > 0, so that years * 12 payments sum to the principal, and returns 0
\* whenever principal <= 0 or years <= 0.
C9_MonthlyPayment ==
    (call.fn = "calculate_monthly_payment" /\ call.returned) =>
        IF call.principal[1] > 0 /\ call.years > 0
        THEN Times(call.ret, R(call.years * 12)) = call.principal
        ELSE call.ret = Zero

\* a loan at a rate other than 0 over several years, its payment returned
C9_Witness ==
    /\ call.fn = "calculate_monthly_payment"
    /\ call.returned
    /\ call.principal = <<6, 5>>
    /\ call.years = 3
    /\ call.annual_rate = One
    /\ call.ret = <<1, 30>>

\* the raw weights of the life-stage bucket of an age
BucketOf(age, cfg) ==
    CASE age <= 40 -> <<cfg.young_growth_ratio, cfg.young_conservative_ratio,
                        cfg.young_cash_reserve_ratio>>
      [] age > 40 /\ age <= 55 ->
                      <<cfg.middle_growth_ratio, cfg.middle_conservative_ratio,
                        cfg.middle_cash_reserve_ratio>>
      [] age > 55 -> <<cfg.old_growth_ratio, cfg.old_conservative_ratio,
                       cfg.old_cash_reserve_ratio>>

\* C10: for every age and every configuration whose three weights of the
\* selected life-stage bucket (age <= 40 young, age <= 55 middle, else old)
\* are non-negative, get_allocation_ratios returns three non-negative
\* weights that sum to 1, and exactly (0, 0, 1) when all three are zero.
C10_AllocationRatios ==
    (call.fn = "get_allocation_ratios" /\ call.returned) =>
        LET w == BucketOf(call.age, call.investment_config)
        IN  (w[1][1] >= 0 /\ w[2][1] >= 0 /\ w[3][1] >= 0) =>
                /\ call.ret[1][1] >= 0
                /\ call.ret[2][1] >= 0
                /\ call.ret[3][1] >= 0
                /\ Plus(Plus(call.ret[1], call.ret[2]), call.ret[3]) = One
                /\ (w = <<Zero, Zero, Zero>>) => call.ret = <<Zero, Zero, One>>

\* the all-cash fallback taken for the middle bucket at its first age while
\* the young bucket holds weights
C10_Witness ==
    /\ call.fn = "get_allocation_ratios"
    /\ call.returned
    /\ call.age = 41
    /\ call.investment_config.young_growth_ratio = One
    /\ call.investment_config.middle_cash_reserve_ratio = Zero
    /\ call.ret = <<Zero, Zero, One>>

\* C11: in every accumulation month, for any configured weight triples
\* (negative ones included), the three weights applied to the cash flow are
\* each >= 0 and sum to 1, and are (0, 0, 1) whenever the configured weights
\* of the bucket of that age sum to zero or less.
C11_AppliedWeights ==
    pc = "accum_month" =>
        LET w == BucketOf(cur_age, payload.investment_config)
        IN  /\ ratios[1][1] >= 0
            /\ ratios[2][1] >= 0
            /\ ratios[3][1] >= 0
            /\ Plus(Plus(ratios[1], ratios[2]), ratios[3]) = One
            /\ Plus(Plus(w[1], w[2]), w[3])[1] <= 0 => ratios = <<Zero, Zero, One>>

\* C12: in the retirement phase, once the debt is <= 0 at a year end the
\* monthly house payment is 0 in every later month up to the end of the
\* simulation, also when a house purchase is keyed to a later age.
C12_PaymentStaysZero ==
    \A a \in DOMAIN yearly_map :
        (a \in stepped.retire /\ Le(yearly_map[a].debt, Zero)) =>
            /\ monthly_house_payment = Zero
            /\ \A i \in 1 .. NSnaps :
                  Snap(i).age > a =>
                      Snap(i).total_expense = Snap(i).monthly_expense
            /\ \A b \in DOMAIN yearly_map :
                  b > a => yearly_map[b].monthly_house_payment = Zero

\* a mortgage repaid in a retirement year during which it was still paid,
\* with a house purchase keyed to a later retirement age that was simulated
C12_Witness ==
    /\ pc = "done"
    /\ \E a \in stepped.retire :
          /\ yearly_map[a].debt = Zero
          /\ Lt(Zero, yearly_map[a].monthly_house_payment)
          /\ \E b \in stepped.retire : b > a /\ IsHouseEventAt(b)

\* C13: in the yearly map, yearly_withdrawn is 0 for every accumulation age
\* and, for every retirement age, 12 times the monthly outflow (monthly
\* expense plus house payment) of that year, which is the same in all 12
\* months of the year.
C13_YearlyWithdrawn ==
    \A a \in DOMAIN yearly_map :
        /\ a \in stepped.accum => yearly_map[a].yearly_withdrawn = Zero
        /\ a \in stepped.retire =>
              \A i \in 1 .. NSnaps :
                  Snap(i).age = a =>
                      /\ yearly_map[a].yearly_withdrawn =
                            Times(R(12), Snap(i).total_expense)
                      /\ Snap(i).total_expense =
                            Plus(yearly_map[a].monthly_expense,
                                 yearly_map[a].monthly_house_payment)

\* a finished run with a year of accumulation and a retirement year in which
\* a house payment was part of the outflow
C13_Witness ==
    /\ pc = "done"
    /\ stepped.accum # {}
    /\ \E a \in stepped.retire :
          /\ Lt(Zero, yearly_map[a].monthly_house_payment)
          /\ Lt(Zero, yearly_map[a].monthly_expense)
          /\ Lt(Times(R(12), yearly_map[a].monthly_expense),
                yearly_map[a].yearly_withdrawn)

\* C14: for every simulated age a the yearly map has exactly one entry, and
\* it agrees with the monthly snapshot (age a, month 12) on net worth, debt,
\* monthly income, monthly expense and the three asset-class balances.
C14_YearlyAgreesWithMonth12 ==
    /\ pc = "done" => DOMAIN yearly_map = stepped.accum \cup stepped.retire
    /\ \A a \in DOMAIN yearly_map :
          \A i \in 1 .. NSnaps :
              (Snap(i).age = a /\ Snap(i).month = 12) =>
                  /\ yearly_map[a].net_worth = Snap(i).net_worth
                  /\ yearly_map[a].debt = Snap(i).debt
                  /\ yearly_map[a].monthly_income = Snap(i).monthly_income
                  /\ yearly_map[a].monthly_expense = Snap(i).monthly_expense
                  /\ yearly_map[a].stock_investment = Snap(i).stock_investment
                  /\ yearly_map[a].bond_investment = Snap(i).bond_investment
                  /\ yearly_map[a].cash_investment = Snap(i).cash_investment

\* C15: in every monthly snapshot real_estate_investment is 0 and net_worth
\* is the sum of the stock_investment, bond_investment and cash_investment
\* reported in the same snapshot.
C15_NetWorthIsSumOfReported ==
    \A i \in 1 .. NSnaps :
        /\ Snap(i).real_estate_investment = Zero
        /\ Snap(i).net_worth =
              Plus(Plus(Snap(i).stock_investment, Snap(i).bond_investment),
                   Snap(i).cash_investment)

C18_NeverRaises == pc # "raised"

\* C19: a value present in the payload is used as supplied: an
\* inflation_rate of 0 leaves the monthly expense the same in every simulated
\* year, a growth or conservative return rate of 0 compounds nothing in its
\* asset class, and an age of 0 starts the simulation at age 0.
C19_SuppliedZeroIsUsed ==
    /\ payload.investment_config.inflation_rate = Zero =>
          \A i \in 1 .. NSnaps :
              Snap(i).monthly_expense = R(payload.player_status.monthly_expense)
    /\ (payload.player_status.age = 0 /\ NSnaps >= 1) => Snap(1).age = 0
    /\ \A i \in 1 .. NSnaps - 1 :
          (i > AccumMonths /\ ~CashReturnRaises(payload)) =>
              /\ payload.investment_config.growth_return_rate = Zero =>
                    Le(Snap(i + 1).stock_investment, Snap(i).stock_investment)
              /\ payload.investment_config.conservative_return_rate = Zero =>
                    Le(Snap(i + 1).bond_investment, Snap(i).bond_investment)

\* the sum over the accumulation years of 12 * (income - expense), income
\* growing by the salary growth and expense by the inflation every year
RECURSIVE Surplus(_, _, _, _, _)
Surplus(income, expense, growth, inflation, years) ==
    IF years = 0
    THEN Zero
    ELSE Plus(Times(R(12), Minus(income, expense)),
              Surplus(Times(income, Plus(One, growth)),
                      Times(expense, Plus(One, inflation)),
                      growth, inflation, years - 1))

\* 100% cash in the three life stages, cash at 0%, no life event,
\* start age < retirement age < life expectancy
IsSmokeScenario(p) ==
    /\ \A k \in {"young_growth_ratio", "young_conservative_ratio",
                 "middle_growth_ratio", "middle_conservative_ratio",
                 "old_growth_ratio", "old_conservative_ratio"} :
          p.investment_config[k] = Zero
    /\ \A k \in {"young_cash_reserve_ratio", "middle_cash_reserve_ratio",
                 "old_cash_reserve_ratio"} :
          Lt(Zero, p.investment_config[k])
    /\ "cash_return" \in DOMAIN p.investment_config
    /\ CashRet(p) = Zero
    /\ p.life_planning = << >>
    /\ Age(p) < RetirementAge(p)
    /\ RetirementAge(p) < LifeExpectancy(p)

\* C20: in the scenario of the smoke test (all cash at 0%, no life event,
\* start age < retirement age < life expectancy) the net worth of the yearly
\* snapshot keyed by the retirement age is the sum over the accumulation
\* years y of 12 * (income_y - expense_y).
C20_NetWorthAtRetirement ==
    (pc = "done" /\ IsSmokeScenario(payload)) =>
        yearly_map[RetirementAge(payload)].net_worth =
            Surplus(R(payload.player_status.monthly_income),
                    R(payload.player_status.monthly_expense),
                    SalaryGrowth(payload), Inflation(payload), Years(payload))

\* C21: the input savings are part of the initial state: before the first
\* simulated month the three asset balances total the savings of the payload
\* (so that the first snapshot is the compounded savings plus the first net
\* cash flow).
C21_SavingsInInitialState ==
    (pc \in {"accum_month", "retire_month"} /\ financial_results = << >>) =>
        Plus(Plus(stock_amt, bond_amt), cash_amt) =
            R(payload.player_status.savings)

\* the smallest age a < life expectancy with a key in the snapshot map whose
\* net worth is at least the target of the formula for a, None (<< >>) when
\* there is none
FirstAge(simulation_results, in, formula) ==
    LET Target(a) == IF formula = "growing"
                     THEN AgeTargetGrowing(a, in)
                     ELSE AgeTargetTraditional(a, in)
        hits == { k[2] : k \in { x \in DOMAIN simulation_results :
                      /\ x[2] < in.life_expectancy
                      /\ Le(Target(x[2]),
                            Get(simulation_results[x], "net_worth", Zero)) } }
    IN  IF hits = {}
        THEN << >>
        ELSE << CHOOSE a \in hits : \A b \in hits : a <= b >>

\* C22: check_fire_achievement reports, for each of the two formulas on its
\* own, the smallest age key a < life expectancy whose net worth is at least
\* that formula's target for age a (the growing-annuity present value over
\* life expectancy - a years of the annual expense inflated from the current
\* age, resp. 25 times that expense), and None exactly when no such age
\* exists; one formula's age neither sets nor blocks the other's.
C22_FireAges ==
    (call.fn = "check_fire_achievement" /\ call.returned) =>
        LET in == FireInputs(call.player_status, call.investment_config)
        IN  /\ call.ret.fire_age_growing =
                   FirstAge(call.simulation_results, in, "growing")
            /\ call.ret.fire_age_traditional =
                   FirstAge(call.simulation_results, in, "traditional")

\* a call has returned with the 25x target met at an earlier age than the
\* growing-annuity target
C22_Witness ==
    /\ call.fn = "check_fire_achievement"
    /\ call.returned
    /\ call.ret.fire_age_growing # << >>
    /\ call.ret.fire_age_traditional # << >>
    /\ call.ret.fire_age_traditional[1] < call.ret.fire_age_growing[1]

\* C23: check_fire_achievement returns a non-empty retirement_status exactly
\* when the retirement age has an entry in the snapshot map, under an integer
\* key or under the text of the age; its net_worth and monthly_expense are
\* then those of that snapshot, annual_expense is 12 times the monthly
\* expense and safe_withdrawal is 4% of the net worth.
C23_RetirementSummary ==
    (call.fn = "check_fire_achievement" /\ call.returned) =>
        LET in == FireInputs(call.player_status, call.investment_config)
            keys == { k \in DOMAIN call.simulation_results :
                        k[2] = in.retirement_age }
            status == call.ret.retirement_status
        IN  /\ status # << >> <=> keys # {}
            /\ status # << >> =>
                  \E k \in keys :
                     LET data == call.simulation_results[k]
                     IN  /\ status.net_worth = Get(data, "net_worth", Zero)
                         /\ status.monthly_expense =
                                Get(data, "monthly_expense", Zero)
                         /\ status.annual_expense =
                                Times(status.monthly_expense, R(12))
                         /\ status.safe_withdrawal =
                                Times(status.net_worth, <<4, 100>>)

\* C24: calculate_growing_annuity_present_value(E0, n, r, g) returns 0 when
\* n <= 0 or E0 <= 0; otherwise E0 * n / (1 + r) when |r - g| < 1e-6 and
\* E0 * (1 - ((1 + g) / (1 + r)) ^ n) / (r - g) in all other cases; for
\* r > -1 it never divides by zero.
C24_GrowingAnnuity ==
    call.fn = "calculate_growing_annuity_present_value" =>
        LET E0 == call.annual_expense
            n == call.years
            r == call.real_return_rate
            g == call.inflation_rate
            gap == IF Le(g, r) THEN Minus(r, g) ELSE Minus(g, r)
        IN  /\ Lt(Neg(One), r) => ~call.raised
            /\ call.returned =>
                  call.ret =
                      IF n <= 0 \/ Le(E0, Zero)
                      THEN Zero
                      ELSE IF Lt(gap, <<1, 1000000>>)
                      THEN Over(Times(E0, R(n)), Plus(One, r))
                      ELSE Over(Times(E0, Minus(One,
                                    Pow(Over(Plus(One, g), Plus(One, r)), n))),
                                Minus(r, g))

\* a call has returned the limiting-case value for two rates that differ by
\* less than 1e-6
C24_Witness ==
    /\ call.fn = "calculate_growing_annuity_present_value"
    /\ call.returned
    /\ call.years > 1
    /\ Lt(Zero, call.annual_expense)
    /\ call.real_return_rate # call.inflation_rate
    /\ call.ret = Over(Times(call.annual_expense, R(call.years)),
                       Plus(One, call.real_return_rate))

C26_TriggerAgeInRange ==
    (call.fn \in {"start_dice_game", "roll_double_dice_streamlit"}
     /\ call.returned) =>
        /\ call.player_age <= call.ret.trigger_age
        /\ call.ret.trigger_age <= call.retirement_age - 1

\* C27: a house payment is charged only while a mortgage is outstanding: in
\* every month of either phase that begins with debt balance 0, the house
\* payment deducted from the cash flow (accumulation) or added to the outflow
\* (retirement) is 0.
C27_PaymentOnlyWhileDebt ==
    (pc \in {"accum_month", "retire_month"} /\ m < MonthsPerYear
     /\ current_debt = Zero) =>
        monthly_house_payment = Zero

\* C28: two payloads that differ only in life-planning events that are no
\* house purchase (planned flat-amount events, dice events) produce the same
\* simulation_results and the same financial_results.
C28_OtherEventsIgnored ==
    (pc = "done" /\ call # NoCall) =>
        /\ yearly_map = call.simulation_results
        /\ financial_results = call.financial_results

\* the second of two runs is over; the first had a planned event and a house
\* purchase, the second has the house purchase alone
C28_Witness ==
    /\ pc = "done"
    /\ call # NoCall
    /\ payload.life_planning # call.life_planning
    /\ payload.life_planning = HouseEventsOnly(call.life_planning)
    /\ \E i \in 1 .. NSnaps : Lt(Zero, Snap(i).debt)

\* C29: in every retirement month, if the total of the three balances after
\* compounding is at least the monthly outflow (expense + house payment), the
\* total after the withdrawal is that total minus exactly the outflow;
\* otherwise all three balances are 0 after the month.
C29_WithdrawalConservation ==
    [][(pc = "retire_month" /\ m' = m + 1) =>
          LET total == Plus(Plus(Compound(cash_amt, CashRet(payload)),
                                 Compound(bond_amt, ConsRet(payload))),
                            Compound(stock_amt, GrowthRet(payload)))
              outflow == Plus(monthly_expense, monthly_house_payment)
          IN  IF Le(outflow, total)
              THEN Plus(Plus(stock_amt', bond_amt'), cash_amt') =
                       Minus(total, outflow)
              ELSE /\ stock_amt' = Zero
                   /\ bond_amt' = Zero
                   /\ cash_amt' = Zero]_vars

\* C30: in every accumulation month the sum of the three balances after the
\* step is the sum of the three compounded previous balances plus exactly the
\* net cash flow (income - house payment - expense); processing a house
\* purchase changes the debt and the house payment and none of the three
\* balances (the down payment is not deducted from the assets).
C30_CashFlowConservation ==
    [][/\ (pc = "accum_month" /\ m' = m + 1) =>
              Plus(Plus(stock_amt', bond_amt'), cash_amt') =
                  Plus(Plus(Plus(Compound(stock_amt, GrowthRet(payload)),
                                 Compound(bond_amt, ConsRet(payload))),
                            Compound(cash_amt, CashRet(payload))),
                       Minus(Minus(monthly_income, monthly_house_payment),
                             monthly_expense))
       /\ (pc = "accum_year" /\ pc' = "accum_month") =>
              /\ stock_amt' = stock_amt
              /\ bond_amt' = bond_amt
              /\ cash_amt' = cash_amt]_vars

\* a house was bought at an age at which the balances were not 0, and a
\* month of that age has been stepped with the payment in its cash flow
C30_Witness ==
    /\ pc = "accum_month"
    /\ m >= 1
    /\ year_i >= 1
    /\ IsHouseEventAt(cur_age)
    /\ Lt(Zero, monthly_house_payment)
    /\ Lt(Zero, Plus(Plus(stock_amt, bond_amt), cash_amt))
    /\ stock_amt # Zero
    /\ cash_amt # Zero

=============================================================================
